---- MODULE Spec2Model ----
(***************************************************************************)
(* YT Prospect Finder (src/app.py): one Streamlit script run, from the     *)
(* button click to the two result tables.  The script is single-threaded;  *)
(* every action below is one step of that script (a request issued, one    *)
(* attempt of request.execute(), one page or batch consumed, a pipeline    *)
(* stage).                                                                 *)
(*                                                                         *)
(* Representation.  Strings the code splits or parses are sequences of     *)
(* one-character strings.  Identifiers (videoId, channelId) are naturals,  *)
(* None being 0.  Timestamps are seconds; NaT and NaN are records with a   *)
(* flag.  Floats are kept exact: duration is held in seconds, a sleep as   *)
(* a fraction, views_per_day in tenths (the code rounds to one decimal).   *)
(***************************************************************************)
EXTENDS Integers, Sequences, FiniteSets, TLC

VARIABLES
    \* sidebar widgets read by the run (lines 202-249)
    api_key, raw_queries, max_per_query, sidebar,
    \* position of the script
    pc,
    \* st.cache_data of get_categories_map, the only state kept between runs
    categories_cache,
    \* main run locals (lines 251-416)
    selected_category_id, queries, qi, all_video_ids, videos_df,
    unique_channels, ch_df, merged, trending, general,
    \* search_videos locals (lines 103-128)
    video_ids, page_token,
    \* get_videos_stats / get_channels_stats locals (lines 131-188)
    batches, rows,
    \* _safe_execute locals (lines 36-66)
    request, attempt, last_err, res,
    \* observation of the run: requests built, execute() calls and sleeps of
    \* the current _safe_execute call, st.* messages, tables rendered
    requests, executes, sleeps, messages, rendered

vars == <<api_key, raw_queries, max_per_query, sidebar, pc, categories_cache,
          selected_category_id, queries, qi, all_video_ids, videos_df,
          unique_channels, ch_df, merged, trending, general,
          video_ids, page_token, batches, rows,
          request, attempt, last_err, res,
          requests, executes, sleeps, messages, rendered>>

--------------------------------------------------------------------------
(* Bounds of the model *)

\* search pages one search_videos call may request before the model stops it
MaxPages == 3
\* longest identifier list handed to batch enrichment in SpecChunk
MaxLen == 101

(* Program constants *)

\* _safe_execute(..., retries: int = 3, ...)
Retries == 3
\* _safe_execute(..., backoff: float = 1.5): 3/2
BackoffNum == 3
BackoffDen == 2
\* chunked(video_ids, 50), chunked(channel_ids, 50)
BatchSize == 50
\* min(50, limit - len(video_ids))
PageSize == 50
\* total_seconds() / 86400.0
SecondsPerDay == 86400
\* delta_days.replace(0, 0.0001): 1/10000 of a day
EpsilonInv == 10000
\* safe_int(x, default=0)
DefaultCount == 0
\* safe_int(stt.get("subscriberCount"), -1)
UnknownSubs == -1

--------------------------------------------------------------------------
(* Generic helpers *)

Min(a, b) == IF a <= b THEN a ELSE b

Range(s) == {s[i] : i \in 1..Len(s)}

RECURSIVE Pow(_, _)
Pow(b, e) == IF e = 0 THEN 1 ELSE b * Pow(b, e - 1)

RECURSIVE Gcd(_, _)
Gcd(a, b) == IF b = 0 THEN a ELSE Gcd(b, a % b)

Abs(x) == IF x < 0 THEN -x ELSE x

\* numpy's round of the fraction n/d to an integer (ties to even)
RoundDiv(n, d) ==
    LET nn == IF d < 0 THEN -n ELSE n
        dd == Abs(d)
        q  == nn \div dd
        r  == nn % dd
    IN  IF 2 * r < dd THEN q
        ELSE IF 2 * r > dd THEN q + 1
        ELSE IF q % 2 = 0 THEN q ELSE q + 1

\* Python slice lst[a:b] for 0 <= a
Slice(lst, a, b) == SubSeq(lst, a + 1, Min(b, Len(lst)))

RECURSIVE Concat(_)
Concat(ss) == IF ss = <<>> THEN <<>> ELSE Head(ss) \o Concat(Tail(ss))

RECURSIVE SetToSortedSeq(_)
SetToSortedSeq(S) ==
    IF S = {} THEN <<>>
    ELSE LET m == CHOOSE x \in S : \A y \in S : x <= y
         IN  <<m>> \o SetToSortedSeq(S \ {m})

--------------------------------------------------------------------------
(* _safe_execute, lines 36-66 *)

NoRequest == [label |-> "none", ids |-> <<>>, maxResults |-> 0,
              pageToken |-> "None", call |-> 0]
NoResponse == [ok |-> FALSE, items |-> <<>>, nextPageToken |-> "None"]
NoError == [type |-> "none", json |-> FALSE, reason |-> "", message |-> ""]

\* HttpError bodies the provider can send: e.content parses as JSON or not;
\* errors[0].reason and error.message are "" when absent
HttpErrors ==
    {[type |-> "HttpError", json |-> TRUE, reason |-> r, message |-> "m"] :
        r \in {"quotaExceeded", "dailyLimitExceeded", "keyInvalid", "forbidden",
               "ipRefererBlocked", "badRequest", "backendError"}}
    \cup {[type |-> "HttpError", json |-> TRUE, reason |-> "", message |-> "quotaExceeded"],
          [type |-> "HttpError", json |-> FALSE, reason |-> "", message |-> ""]}

\* any other exception raised by request.execute()
OtherErrors == {[type |-> "TimeoutError", json |-> FALSE, reason |-> "", message |-> ""]}

\* lines 44-51: errors[0].reason or error.message; str(e) when the body does not parse
ReasonOf(e) ==
    IF ~e.json THEN "str(e)"
    ELSE IF e.reason # "" THEN e.reason
    ELSE e.message

\* lines 52-60: the branch taken for a reason
TerminalClassDropsBadRequest(reason) ==
    IF reason \in {"quotaExceeded", "dailyLimitExceeded"} THEN "quota"
    ELSE IF reason \in {"keyInvalid", "forbidden", "ipRefererBlocked"} THEN "key"
    ELSE "retry"

TerminalClass(reason) ==
    IF reason \in {"quotaExceeded", "dailyLimitExceeded"} THEN "quota"
    ELSE IF reason \in {"keyInvalid", "forbidden", "ipRefererBlocked"} THEN "key"
    ELSE IF reason \in {"badRequest"} THEN "badRequest"
    ELSE "retry"

\* the st.error of each branch; only the badRequest text carries context_label
TerminalMessage(class, label) ==
    [level |-> "error", text |-> class,
     label |-> IF class = "badRequest" THEN label ELSE "", err |-> NoError]

\* line 65: the text names context_label and last_err
ExhaustedMessage(label, err) ==
    [level |-> "error", text |-> "api_error", label |-> label, err |-> err]

\* the other st.error / st.warning / st.info texts of the script
Msg(level, text) == [level |-> level, text |-> text, label |-> "", err |-> NoError]

\* time.sleep(backoff ** attempt), as a fraction
BackoffSleep(a) == <<Pow(BackoffNum, a), Pow(BackoffDen, a)>>

\* for attempt in range(1, retries + 1): is there a next attempt after `a`
HasNextAttemptOffByOne(a) == a < Retries + 1

HasNextAttempt(a) == a < Retries

\* a caller builds a request and enters _safe_execute
Issue(req) ==
    /\ request' = req
    /\ requests' = Append(requests, req)
    /\ attempt' = 1
    /\ last_err' = NoError
    /\ res' = NoResponse
    /\ executes' = 0
    /\ sleeps' = <<>>

\* the run of the script ends in st.stop() with message m
Stop(m) ==
    /\ pc' = "stopped"
    /\ messages' = Append(messages, m)

--------------------------------------------------------------------------
(* Text helpers: keyword splitting (line 267), safe_int (88-92),            *)
(* parse_duration_minutes (95-100)                                          *)

\* a string as the sequence of its characters
NonEmpty(s) == s # <<>>

RECURSIVE LStrip(_)
LStrip(s) == IF s # <<>> /\ Head(s) = " " THEN LStrip(Tail(s)) ELSE s

RECURSIVE RStrip(_)
RStrip(s) == IF s # <<>> /\ s[Len(s)] = " " THEN RStrip(SubSeq(s, 1, Len(s) - 1)) ELSE s

\* q.strip()
Strip(s) == RStrip(LStrip(s))

\* raw_queries.split(","): "" splits to [""]
RECURSIVE SplitComma(_, _)
SplitComma(s, cur) ==
    IF s = <<>> THEN <<cur>>
    ELSE IF Head(s) = "," THEN <<cur>> \o SplitComma(Tail(s), <<>>)
    ELSE SplitComma(Tail(s), Append(cur, Head(s)))

\* [q.strip() for q in raw_queries.split(",") if q.strip()]
ParseQueries(raw) ==
    LET parts == SplitComma(raw, <<>>)
    IN  SelectSeq([i \in 1..Len(parts) |-> Strip(parts[i])], NonEmpty)

DigitChars == <<"0", "1", "2", "3", "4", "5", "6", "7", "8", "9">>
IsDigit(c) == c \in Range(DigitChars)
DigitVal(c) == (CHOOSE i \in 1..Len(DigitChars) : DigitChars[i] = c) - 1

RECURSIVE DigitsVal(_, _)
DigitsVal(s, acc) ==
    IF s = <<>> THEN acc ELSE DigitsVal(Tail(s), 10 * acc + DigitVal(Head(s)))

AllDigits(s) == s # <<>> /\ \A i \in 1..Len(s) : IsDigit(s[i])

\* int(text) for a str: an optional sign and decimal digits, else ValueError
ParseInt(text) ==
    IF text # <<>> /\ Head(text) = "-" /\ AllDigits(Tail(text))
        THEN [ok |-> TRUE, val |-> -DigitsVal(Tail(text), 0)]
    ELSE IF AllDigits(text) THEN [ok |-> TRUE, val |-> DigitsVal(text, 0)]
    ELSE [ok |-> FALSE, val |-> 0]

\* a JSON field: absent (None from .get) or a string
Absent == [present |-> FALSE, text |-> <<>>]
Text(s) == [present |-> TRUE, text |-> s]

\* safe_int(x, default): int(None) raises as int("abc") does
safe_int(x, default) ==
    IF ~x.present THEN default
    ELSE LET p == ParseInt(x.text) IN IF p.ok THEN p.val ELSE default

UnitSeconds(c) == IF c = "H" THEN 3600 ELSE IF c = "M" THEN 60 ELSE 1

\* the time components after "PT": runs of digits each closed by H, M or S
RECURSIVE ParseComponents(_, _, _)
ParseComponents(s, digits, total) ==
    IF s = <<>> THEN [ok |-> digits = <<>>, val |-> total]
    ELSE IF IsDigit(Head(s)) THEN ParseComponents(Tail(s), Append(digits, Head(s)), total)
    ELSE IF Head(s) \in {"H", "M", "S"} /\ digits # <<>>
        THEN ParseComponents(Tail(s), <<>>, total + DigitsVal(digits, 0) * UnitSeconds(Head(s)))
    ELSE [ok |-> FALSE, val |-> 0]

\* parse_duration_minutes, in seconds (minutes = seconds / 60); 0 on any failure
parse_duration_seconds(text) ==
    IF Len(text) > 2 /\ text[1] = "P" /\ text[2] = "T"
    THEN LET p == ParseComponents(SubSeq(text, 3, Len(text)), <<>>, 0)
         IN  IF p.ok THEN p.val ELSE 0
    ELSE 0

\* chunked(lst, size): [lst[i : i + size] for i in range(0, len(lst), size)]
RECURSIVE ChunkedFrom(_, _, _)
ChunkedFrom(lst, size, i) ==
    IF i >= Len(lst) THEN <<>>
    ELSE <<Slice(lst, i, i + size)>> \o ChunkedFrom(lst, size, i + size)

chunkedOverlapping(lst, size) ==
    [k \in 1..((Len(lst) + size - 1) \div size) |->
        SubSeq(lst, (k - 1) * size + 1, Min(k * size + 1, Len(lst)))]

chunked(lst, size) == ChunkedFrom(lst, size, 0)

--------------------------------------------------------------------------
(* Rows built from the provider's items *)

\* cd.get("duration", "PT0M")
DefaultDuration == <<"P", "T", "0", "M">>

\* get_videos_stats, lines 148-162 (title, likes, comments and thumbnail are
\* carried to the tables unchanged and read by no filter; they are left out)
VideoRow(it) ==
    [videoId |-> it.id,
     publishedAt |-> it.publishedAt,
     channelId |-> it.channelId,
     categoryId |-> it.categoryId,
     views |-> safe_int(it.viewCount, DefaultCount),
     duration_sec |-> parse_duration_seconds(
        IF it.duration.present THEN it.duration.text ELSE DefaultDuration)]

\* get_channels_stats, lines 180-187
ChannelRow(it) ==
    [channelId |-> it.id,
     subs |-> safe_int(it.subscriberCount, UnknownSubs)]

\* get_categories_map, lines 77-81: {id: title} of the assignable categories
CategoryMapping(items) ==
    LET keep == {i \in 1..Len(items) :
                    items[i].kind = "youtube#videoCategory" /\ items[i].assignable}
    IN  {<<items[i].id, items[i].title>> : i \in keep}

--------------------------------------------------------------------------
(* The provider (YouTube Data API): the responses request.execute() can     *)
(* return.  `env` names how much of the provider a specification explores:  *)
(* "run" (the whole script, few items), "search" (pages up to the requested *)
(* size), "chunk" (long identifier lists), "pipe" (many publisher shapes).  *)

\* datetime.utcnow() of the run, in seconds
NowUtc == 40 * SecondsPerDay

Ts(t) == [ok |-> TRUE, t |-> t]
BadTs == [ok |-> FALSE, t |-> 0]

Txt20000 == <<"2", "0", "0", "0", "0">>
Txt5000 == <<"5", "0", "0", "0">>
Txt150000 == <<"1", "5", "0", "0", "0", "0">>
TxtPT25M == <<"P", "T", "2", "5", "M">>
TxtPT1H5M == <<"P", "T", "1", "H", "5", "M">>
TxtPT30S == <<"P", "T", "3", "0", "S">>

\* what videos.list returns for one video besides its id
GoodProfile(ch) ==
    [channelId |-> ch, publishedAt |-> Ts(NowUtc - 2 * SecondsPerDay),
     categoryId |-> "10", viewCount |-> Text(Txt20000), duration |-> Text(TxtPT25M)]

RunProfiles ==
    <<GoodProfile(1), GoodProfile(0), [GoodProfile(1) EXCEPT !.categoryId = "22"]>>

PipeProfiles ==
    <<GoodProfile(1),
      GoodProfile(2),
      GoodProfile(0),
      [GoodProfile(1) EXCEPT !.publishedAt = Ts(NowUtc)],
      [GoodProfile(1) EXCEPT !.publishedAt = Ts(NowUtc + 3600)],
      [GoodProfile(2) EXCEPT !.publishedAt = Ts(NowUtc - 60 * SecondsPerDay),
                             !.duration = Text(TxtPT1H5M)],
      [GoodProfile(1) EXCEPT !.publishedAt = BadTs],
      [GoodProfile(2) EXCEPT !.viewCount = Absent, !.duration = Text(TxtPT30S)]>>

VideoItemOf(id, p) == [id |-> id] @@ p

\* subscriberCount the provider sends for a channel
RunSubs == <<Text(Txt5000), Absent>>
PipeSubs == <<Text(Txt5000), Absent, Text(<<"a", "b", "c">>), Text(<<"0">>),
              Text(<<"-", "1">>), Text(Txt150000)>>

RECURSIVE Dedup(_, _)
Dedup(s, seen) ==
    IF s = <<>> THEN <<>>
    ELSE IF Head(s) \in seen THEN Dedup(Tail(s), seen)
    ELSE <<Head(s)>> \o Dedup(Tail(s), seen \cup {Head(s)})

\* one item per requested video the choice f keeps (0: the provider omits it)
RECURSIVE VideoItems(_, _, _)
VideoItems(ids, f, profs) ==
    IF ids = <<>> THEN <<>>
    ELSE (IF f[Head(ids)] = 0 THEN <<>>
          ELSE <<VideoItemOf(Head(ids), profs[f[Head(ids)]])>>)
         \o VideoItems(Tail(ids), f, profs)

RECURSIVE ChannelItems(_, _, _)
ChannelItems(ids, f, subs) ==
    IF ids = <<>> THEN <<>>
    ELSE (IF f[Head(ids)] = 0 THEN <<>>
          ELSE <<[id |-> Head(ids), subscriberCount |-> subs[f[Head(ids)]]]>>)
         \o ChannelItems(Tail(ids), f, subs)

Response(items, token) == [ok |-> TRUE, items |-> items, nextPageToken |-> token]

CategoryResponses ==
    {Response(<<[kind |-> "youtube#videoCategory", id |-> "10", title |-> "Music",
                 assignable |-> TRUE],
                [kind |-> "youtube#videoCategory", id |-> "19", title |-> "Travel",
                 assignable |-> FALSE]>>, "None")}

\* a search page of n entries; with `hole` its first entry has no videoId
PageOf(n, hole) == [i \in 1..n |-> [videoId |-> IF hole /\ i = 1 THEN 0 ELSE i]]

\* the pages of the "run" provider: one entry and no more pages; nothing; an
\* entry without videoId, one with, and a continuation token
RunSearchResponses ==
    {Response(PageOf(1, FALSE), "None"),
     Response(PageOf(0, FALSE), "None"),
     Response(PageOf(2, TRUE), "T1")}

WidePages(m) == {PageOf(0, FALSE), PageOf(1, FALSE), PageOf(1, TRUE), PageOf(m, FALSE)}

\* the provider never sends more entries than maxResults asks for
SearchResponses(env, req) ==
    LET all == IF env = "search"
               THEN {Response(p, t) : p \in WidePages(req.maxResults),
                                      t \in {"None", "", "T1", "T2"}}
               ELSE RunSearchResponses
    IN  {r \in all : Len(r.items) <= req.maxResults}

VideoResponses(env, req) ==
    LET ids == Dedup(req.ids, {})
    IN  IF env = "chunk"
        THEN {Response([i \in 1..Len(ids) |-> VideoItemOf(ids[i], GoodProfile(ids[i]))], "None")}
        ELSE {Response(VideoItems(ids, f, RunProfiles), "None") :
                f \in [Range(ids) -> 0..Len(RunProfiles)]}

ChannelResponses(env, req) ==
    LET ids == Dedup(req.ids, {})
    IN  IF env = "chunk"
        THEN {Response([i \in 1..Len(ids) |->
                            [id |-> ids[i], subscriberCount |-> Text(Txt5000)]], "None")}
        ELSE LET subs == IF env = "pipe" THEN PipeSubs ELSE RunSubs
             IN  {Response(ChannelItems(ids, f, subs), "None") :
                    f \in [Range(ids) -> 0..Len(subs)]}

Responses(env, req) ==
    CASE req.label = "categorias" -> CategoryResponses
      [] req.label = "search" -> SearchResponses(env, req)
      [] req.label = "videos" -> VideoResponses(env, req)
      [] req.label = "canais" -> ChannelResponses(env, req)

--------------------------------------------------------------------------
(* search_videos, lines 103-128 *)

\* maxResults=min(50, limit - len(video_ids))
SearchMaxResultsFullPage(limit, ids) == PageSize

SearchMaxResults(limit, ids) == Min(PageSize, limit - Len(ids))

\* lines 121-124: the entries whose id has a videoId
RECURSIVE CollectIds(_)
CollectIds(items) ==
    IF items = <<>> THEN <<>>
    ELSE (IF Head(items).videoId # 0 THEN <<Head(items).videoId>> ELSE <<>>)
         \o CollectIds(Tail(items))

\* line 126: `not page_token` holds for None and for ""
NoToken(t) == t \in {"None", ""}

\* the search requests of the search_videos call for query number `call`
SearchRequestsOf(call) ==
    SelectSeq(requests, LAMBDA r : r.label = "search" /\ r.call = call)

--------------------------------------------------------------------------
(* Merge, filter and rank, lines 284-386 *)

NaN == [na |-> TRUE, v |-> 0]
Num(n) == [na |-> FALSE, v |-> n]

\* line 286
CategoryFilter(df, cat) == SelectSeq(df, LAMBDA r : r.categoryId = cat)

\* line 292: sorted(videos_df["channelId"].dropna().unique().tolist())
UniqueChannels(df) == SetToSortedSeq({df[i].channelId : i \in 1..Len(df)} \ {0})

\* lines 298-300: the rows of the left join for one video row
JoinRow(v, ch) ==
    LET m == SelectSeq(ch, LAMBDA c : c.channelId = v.channelId)
    IN  IF m = <<>> THEN <<v @@ [subs |-> NaN]>>
        ELSE [i \in 1..Len(m) |-> v @@ [subs |-> Num(m[i].subs)]]

LeftJoin(df, ch) == Concat([i \in 1..Len(df) |-> JoinRow(df[i], ch)])

\* lines 307-309: to_datetime(errors="coerce"), dropna, tz_localize(None)
DropNaT(df) ==
    LET kept == SelectSeq(df, LAMBDA r : r.publishedAt.ok)
    IN  [i \in 1..Len(kept) |-> [kept[i] EXCEPT !.publishedAt = kept[i].publishedAt.t]]

\* (subs >= 0) & (subs <= max_subs); a comparison with NaN is False
SubsInRangeNoFloor(subs, max_subs) == ~subs.na /\ subs.v <= max_subs

SubsInRange(subs, max_subs) == ~subs.na /\ subs.v >= 0 /\ subs.v <= max_subs

\* lines 315-321
TrendingFilter(r, sb, now) ==
    /\ SubsInRange(r.subs, sb.max_subs_hot)
    /\ r.duration_sec >= 60 * sb.min_dur_hot
    /\ r.views >= sb.min_views_hot
    /\ r.publishedAt >= now - sb.days_window * SecondsPerDay

\* lines 375-379
GeneralFilter(r, sb) ==
    /\ r.views >= sb.min_views_general
    /\ r.duration_sec >= 60 * sb.min_duration_general
    /\ SubsInRange(r.subs, sb.max_subs_general)

\* delta_days.replace(0, 0.0001), in days as a fraction <<num, den>>
ReplaceZero(delta_sec) ==
    IF delta_sec = 0 THEN <<1, EpsilonInv>> ELSE <<delta_sec, SecondsPerDay>>

\* line 325: (views / delta_days).round(1), in tenths
ViewsPerDay(views, now, publishedAt) ==
    LET d == ReplaceZero(now - publishedAt)
        g == Gcd(10 * d[2], Abs(d[1]))
    IN  RoundDiv(views * ((10 * d[2]) \div g), d[1] \div g)

KeyGreater(a, b) == a[1] > b[1] \/ (a[1] = b[1] /\ a[2] > b[2])

RECURSIVE InsertDesc(_, _)
InsertDesc(sorted, x) ==
    IF sorted = <<>> THEN <<x>>
    ELSE IF KeyGreater(x.k, Head(sorted).k) THEN <<x>> \o sorted
    ELSE <<Head(sorted)>> \o InsertDesc(Tail(sorted), x)

RECURSIVE SortDescFrom(_, _)
SortDescFrom(s, acc) ==
    IF s = <<>> THEN acc ELSE SortDescFrom(Tail(s), InsertDesc(acc, Head(s)))

\* sort_values([k1, k2], ascending=[False, False]); keyed is <<[k, row], ...>>
SortDesc(keyed) ==
    LET sorted == SortDescFrom(keyed, <<>>)
    IN  [i \in 1..Len(sorted) |-> sorted[i].row]

\* lines 315-327
TrendingOf(df, sb, now) ==
    LET kept == SelectSeq(df, LAMBDA r : TrendingFilter(r, sb, now))
        withV == [i \in 1..Len(kept) |->
                    kept[i] @@ [views_per_day |->
                                  ViewsPerDay(kept[i].views, now, kept[i].publishedAt)]]
    IN  SortDesc([i \in 1..Len(withV) |->
                    [k |-> <<withV[i].views_per_day, withV[i].views>>, row |-> withV[i]]])

\* lines 374-379 (and 386, which a stop at 383 leaves out with no effect on the rows)
GeneralOf(df, sb) ==
    LET kept == SelectSeq(df, LAMBDA r : GeneralFilter(r, sb))
    IN  SortDesc([i \in 1..Len(kept) |->
                    [k |-> <<kept[i].views, kept[i].publishedAt>>, row |-> kept[i]]])

--------------------------------------------------------------------------
(* Inputs of a run *)

\* raw_queries: "", " , ", "a", "a, b"
RawQueryTexts ==
    {<<>>, <<" ", ",", " ">>, <<"a">>, <<"a", ",", " ", "b">>}

\* the threshold widgets: the defaults with the lowest view floors, and a wide setting
Sidebars ==
    {[max_subs_hot |-> 20000, min_dur_hot |-> 20, min_views_hot |-> 10000,
      days_window |-> 7, min_views_general |-> 10000, max_subs_general |-> 10000,
      min_duration_general |-> 10, show_only_trending |-> FALSE],
     [max_subs_hot |-> 200000, min_dur_hot |-> 1, min_views_hot |-> 1000,
      days_window |-> 30, min_views_general |-> 10000, max_subs_general |-> 200000,
      min_duration_general |-> 0, show_only_trending |-> TRUE]}

inputs == <<api_key, raw_queries, max_per_query, sidebar>>
mainv == <<selected_category_id, queries, qi, all_video_ids>>
searchv == <<video_ids, page_token>>
enrichv == <<batches, rows>>
pipev == <<videos_df, unique_channels, ch_df, merged, trending, general>>
callv == <<request, requests, attempt, last_err, res, executes, sleeps>>
obsv == <<messages, rendered>>

\* the script's state when a run begins
Fresh ==
    /\ api_key = "" /\ raw_queries = <<>> /\ max_per_query = 0
    /\ sidebar = CHOOSE sb \in Sidebars : TRUE
    /\ pc = "idle"
    /\ selected_category_id = "None" /\ queries = <<>> /\ qi = 0
    /\ all_video_ids = <<>> /\ videos_df = <<>> /\ unique_channels = <<>>
    /\ ch_df = <<>> /\ merged = <<>> /\ trending = <<>> /\ general = <<>>
    /\ video_ids = <<>> /\ page_token = "None"
    /\ batches = <<>> /\ rows = <<>>
    /\ request = NoRequest /\ attempt = 0 /\ last_err = NoError /\ res = NoResponse
    /\ requests = <<>> /\ executes = 0 /\ sleeps = <<>>
    /\ messages = <<>> /\ rendered = {}

Init ==
    /\ Fresh
    /\ categories_cache = [hit |-> FALSE, map |-> {}]

--------------------------------------------------------------------------
(* Actions *)

\* lines 249-257: the button is clicked; the credential check, then
\* get_categories_map (cached per key and region by st.cache_data)
Click ==
    /\ pc = "idle"
    /\ \E k \in {"", "k"}, rq \in RawQueryTexts, lim \in {20}, sb \in Sidebars :
        /\ api_key' = k
        /\ raw_queries' = rq
        /\ max_per_query' = lim
        /\ sidebar' = sb
        /\ IF k = ""
           THEN Stop(Msg("error", "no_key")) /\ UNCHANGED callv
           ELSE IF categories_cache.hit
           THEN pc' = "categories" /\ UNCHANGED <<callv, messages>>
           ELSE /\ pc' = "categories"
                /\ Issue([NoRequest EXCEPT !.label = "categorias"])
                /\ UNCHANGED messages
    /\ UNCHANGED <<categories_cache, mainv, searchv, enrichv, pipev, rendered>>

\* line 41: request.execute() returns; the locals of _safe_execute are gone, and
\* the caller that takes the response closes the count of execute() calls
ExecuteOk(env) ==
    /\ attempt >= 1
    /\ \E r \in Responses(env, request) : res' = r
    /\ executes' = executes + 1
    /\ attempt' = 0
    /\ last_err' = NoError
    /\ sleeps' = <<>>
    /\ UNCHANGED <<inputs, pc, categories_cache, mainv, searchv, enrichv, pipev,
                   request, requests, obsv>>

\* lines 61 / 64, then the next iteration of the for loop or lines 65-66
Retry(e) ==
    /\ sleeps' = Append(sleeps, BackoffSleep(attempt))
    /\ IF HasNextAttempt(attempt)
       THEN attempt' = attempt + 1 /\ UNCHANGED <<pc, messages>>
       ELSE attempt' = 0 /\ Stop(ExhaustedMessage(request.label, e))

\* lines 42-61: request.execute() raises HttpError
ExecuteHttpError ==
    /\ attempt >= 1
    /\ \E e \in HttpErrors :
        /\ last_err' = e
        /\ executes' = executes + 1
        /\ IF TerminalClass(ReasonOf(e)) # "retry"
           THEN /\ Stop(TerminalMessage(TerminalClass(ReasonOf(e)), request.label))
                /\ attempt' = 0
                /\ sleeps' = sleeps
           ELSE Retry(e)
    /\ UNCHANGED <<inputs, categories_cache, mainv, searchv, enrichv, pipev,
                   request, requests, res, rendered>>

\* lines 62-64: request.execute() raises another exception
ExecuteException ==
    /\ attempt >= 1
    /\ \E e \in OtherErrors :
        /\ last_err' = e
        /\ executes' = executes + 1
        /\ Retry(e)
    /\ UNCHANGED <<inputs, categories_cache, mainv, searchv, enrichv, pipev,
                   request, requests, res, rendered>>

\* lines 257-273: the category map (fetched or cached), the category select box,
\* the keyword list
CategoriesLoaded ==
    /\ pc = "categories"
    /\ attempt = 0
    /\ res.ok \/ categories_cache.hit
    /\ LET map == IF categories_cache.hit THEN categories_cache.map
                  ELSE CategoryMapping(res.items)
       IN  /\ categories_cache' = [hit |-> TRUE, map |-> map]
           /\ \E title \in {"(Qualquer)"} \cup {m[2] : m \in map} :
                selected_category_id' =
                    IF title = "(Qualquer)" THEN "None"
                    ELSE (CHOOSE m \in map : m[2] = title)[1]
    /\ queries' = ParseQueries(raw_queries)
    /\ all_video_ids' = <<>>
    /\ qi' = 1
    /\ res' = NoResponse
    /\ executes' = 0
    /\ pc' = "queries_loop"
    /\ UNCHANGED <<inputs, searchv, enrichv, pipev, request, requests, attempt,
                   last_err, sleeps, obsv>>

\* lines 274-279: the next keyword enters search_videos (104-105); after the
\* last one get_videos_stats is called (132-133)
NextQuery ==
    /\ pc = "queries_loop"
    /\ IF qi <= Len(queries)
       THEN /\ video_ids' = <<>>
            /\ page_token' = "None"
            /\ pc' = "search_loop"
            /\ UNCHANGED enrichv
       ELSE /\ rows' = <<>>
            /\ batches' = chunked(all_video_ids, BatchSize)
            /\ pc' = "videos_loop"
            /\ UNCHANGED searchv
    /\ UNCHANGED <<inputs, categories_cache, mainv, pipev, callv, obsv>>

\* lines 106-120: the loop test and the next page request; at the cap
\* search_videos returns (128) and line 276 extends all_video_ids
SearchRequest ==
    /\ pc = "search_loop"
    /\ IF Len(video_ids) < max_per_query
       THEN /\ Len(SearchRequestsOf(qi)) < MaxPages
            /\ Issue([NoRequest EXCEPT
                        !.label = "search",
                        !.maxResults = SearchMaxResults(max_per_query, video_ids),
                        !.pageToken = page_token,
                        !.call = qi])
            /\ pc' = "search_page"
            /\ UNCHANGED mainv
       ELSE /\ all_video_ids' = all_video_ids \o video_ids
            /\ qi' = qi + 1
            /\ pc' = "queries_loop"
            /\ UNCHANGED <<selected_category_id, queries, callv>>
    /\ UNCHANGED <<inputs, categories_cache, searchv, enrichv, pipev, obsv>>

\* lines 121-127: one page consumed; without a continuation token the loop
\* breaks, search_videos returns and line 276 extends all_video_ids
SearchPage ==
    /\ pc = "search_page"
    /\ attempt = 0
    /\ res.ok
    /\ video_ids' = video_ids \o CollectIds(res.items)
    /\ page_token' = res.nextPageToken
    /\ res' = NoResponse
    /\ executes' = 0
    /\ IF NoToken(res.nextPageToken)
       THEN /\ all_video_ids' = all_video_ids \o video_ids'
            /\ qi' = qi + 1
            /\ pc' = "queries_loop"
            /\ UNCHANGED <<selected_category_id, queries>>
       ELSE pc' = "search_loop" /\ UNCHANGED mainv
    /\ UNCHANGED <<inputs, categories_cache, enrichv, pipev, request, requests,
                   attempt, last_err, sleeps, obsv>>


\* lines 133-141: the next batch of get_videos_stats is requested; after the
\* last one the frame is returned (163, 279)
VideosRequest ==
    /\ pc = "videos_loop"
    /\ IF batches # <<>>
       THEN /\ Issue([NoRequest EXCEPT !.label = "videos", !.ids = Head(batches),
                                       !.maxResults = BatchSize])
            /\ pc' = "videos_batch"
            /\ UNCHANGED videos_df
       ELSE /\ videos_df' = rows
            /\ pc' = "after_videos"
            /\ UNCHANGED callv
    /\ UNCHANGED <<inputs, categories_cache, mainv, searchv, enrichv,
                   unique_channels, ch_df, merged, trending, general, obsv>>

\* lines 142-162: the rows of one batch
VideosBatch ==
    /\ pc = "videos_batch"
    /\ attempt = 0
    /\ res.ok
    /\ rows' = rows \o [i \in 1..Len(res.items) |-> VideoRow(res.items[i])]
    /\ batches' = Tail(batches)
    /\ res' = NoResponse
    /\ executes' = 0
    /\ pc' = "videos_loop"
    /\ UNCHANGED <<inputs, categories_cache, mainv, searchv, pipev, request, requests,
                   attempt, last_err, sleeps, obsv>>

\* lines 280-296: the empty check, the category filter, the unique publisher
\* identifiers, and the call of get_channels_stats (167-168) when there are any
AfterVideos ==
    /\ pc = "after_videos"
    /\ LET filtered == IF selected_category_id # "None"
                       THEN CategoryFilter(videos_df, selected_category_id)
                       ELSE videos_df
       IN  IF videos_df = <<>>
           THEN /\ Stop(Msg("warning", "no_videos"))
                /\ UNCHANGED <<enrichv, pipev>>
           ELSE IF filtered = <<>>
           THEN /\ Stop(Msg("info", "no_category"))
                /\ videos_df' = filtered
                /\ UNCHANGED <<enrichv, unique_channels, ch_df, merged, trending, general>>
           ELSE /\ videos_df' = filtered
                /\ unique_channels' = UniqueChannels(filtered)
                /\ UNCHANGED <<messages, merged, trending, general>>
                /\ IF UniqueChannels(filtered) # <<>>
                   THEN /\ rows' = <<>>
                        /\ batches' = chunked(UniqueChannels(filtered), BatchSize)
                        /\ pc' = "channels_loop"
                        /\ UNCHANGED ch_df
                   ELSE /\ ch_df' = <<>>
                        /\ pc' = "merge"
                        /\ UNCHANGED enrichv
    /\ UNCHANGED <<inputs, categories_cache, mainv, searchv, callv, rendered>>

\* lines 168-176: the next batch of get_channels_stats; after the last one
\* the frame is returned (188, 296)
ChannelsRequest ==
    /\ pc = "channels_loop"
    /\ IF batches # <<>>
       THEN /\ Issue([NoRequest EXCEPT !.label = "canais", !.ids = Head(batches),
                                       !.maxResults = BatchSize])
            /\ pc' = "channels_batch"
            /\ UNCHANGED ch_df
       ELSE /\ ch_df' = rows
            /\ pc' = "merge"
            /\ UNCHANGED callv
    /\ UNCHANGED <<inputs, categories_cache, mainv, searchv, enrichv,
                   videos_df, unique_channels, merged, trending, general, obsv>>

\* lines 177-187
ChannelsBatch ==
    /\ pc = "channels_batch"
    /\ attempt = 0
    /\ res.ok
    /\ rows' = rows \o [i \in 1..Len(res.items) |-> ChannelRow(res.items[i])]
    /\ batches' = Tail(batches)
    /\ res' = NoResponse
    /\ executes' = 0
    /\ pc' = "channels_loop"
    /\ UNCHANGED <<inputs, categories_cache, mainv, searchv, pipev, request, requests,
                   attempt, last_err, sleeps, obsv>>

\* lines 298-309: the left join, then the timestamp clean-up.  A frame built
\* from no rows has no columns: merge(on=["channelId"]) raises KeyError, which
\* nothing catches
Merge ==
    /\ pc = "merge"
    /\ IF ch_df = <<>>
       THEN pc' = "crashed" /\ UNCHANGED merged
       ELSE merged' = DropNaT(LeftJoin(videos_df, ch_df)) /\ pc' = "trending"
    /\ UNCHANGED <<inputs, categories_cache, mainv, searchv, enrichv, videos_df,
                   unique_channels, ch_df, trending, general, callv, obsv>>

\* lines 312-368: the trending view and its table
Trending ==
    /\ pc = "trending"
    /\ trending' = TrendingOf(merged, sidebar, NowUtc)
    /\ IF TrendingOf(merged, sidebar, NowUtc) = <<>>
       THEN messages' = Append(messages, Msg("info", "no_trending")) /\ UNCHANGED rendered
       ELSE rendered' = rendered \cup {"trending"} /\ UNCHANGED messages
    /\ pc' = "general"
    /\ UNCHANGED <<inputs, categories_cache, mainv, searchv, enrichv, videos_df,
                   unique_channels, ch_df, merged, general, callv>>

\* lines 373-416: the general view and its table, unless "Somente Em Alta"
General ==
    /\ pc = "general"
    /\ IF sidebar.show_only_trending
       THEN pc' = "done" /\ UNCHANGED <<general, obsv>>
       ELSE /\ general' = GeneralOf(merged, sidebar)
            /\ IF GeneralOf(merged, sidebar) = <<>>
               THEN Stop(Msg("warning", "no_general")) /\ UNCHANGED rendered
               ELSE /\ rendered' = rendered \cup {"general"}
                    /\ pc' = "done"
                    /\ UNCHANGED messages
    /\ UNCHANGED <<inputs, categories_cache, mainv, searchv, enrichv, videos_df,
                   unique_channels, ch_df, merged, trending, callv>>

\* the script has ended (completed, st.stop() or an exception); Streamlit
\* runs it again from the top on the next interaction, keeping only the cache
Rerun ==
    /\ pc \in {"stopped", "done", "crashed"}
    /\ api_key' = "" /\ raw_queries' = <<>> /\ max_per_query' = 0
    /\ sidebar' = CHOOSE sb \in Sidebars : TRUE
    /\ pc' = "idle"
    /\ selected_category_id' = "None" /\ queries' = <<>> /\ qi' = 0
    /\ all_video_ids' = <<>> /\ videos_df' = <<>> /\ unique_channels' = <<>>
    /\ ch_df' = <<>> /\ merged' = <<>> /\ trending' = <<>> /\ general' = <<>>
    /\ video_ids' = <<>> /\ page_token' = "None"
    /\ batches' = <<>> /\ rows' = <<>>
    /\ request' = NoRequest /\ attempt' = 0 /\ last_err' = NoError /\ res' = NoResponse
    /\ requests' = <<>> /\ executes' = 0 /\ sleeps' = <<>>
    /\ messages' = <<>> /\ rendered' = {}
    /\ UNCHANGED categories_cache

Next ==
    \/ Click
    \/ ExecuteOk("run")
    \/ ExecuteHttpError
    \/ ExecuteException
    \/ CategoriesLoaded
    \/ NextQuery
    \/ SearchRequest
    \/ SearchPage
    \/ VideosRequest
    \/ VideosBatch
    \/ AfterVideos
    \/ ChannelsRequest
    \/ ChannelsBatch
    \/ Merge
    \/ Trending
    \/ General
    \/ Rerun

\* the whole script, with a provider of few items
Spec == Init /\ [][Next]_vars

--------------------------------------------------------------------------
(* Specifications that enter the same script part-way, with a provider      *)
(* that explores one stage in depth                                         *)

\* a run that has loaded the categories from the cache and parsed one keyword
AfterCategories(limit) ==
    /\ api_key = "k" /\ raw_queries = <<"a">> /\ max_per_query = limit
    /\ sidebar \in Sidebars
    /\ categories_cache = [hit |-> TRUE, map |-> {<<"10", "Music">>}]
    /\ selected_category_id = "None" /\ queries = <<<<"a">>>>
    /\ unique_channels = <<>> /\ ch_df = <<>>
    /\ merged = <<>> /\ trending = <<>> /\ general = <<>>
    /\ request = NoRequest /\ attempt = 0 /\ last_err = NoError /\ res = NoResponse
    /\ executes = 0 /\ sleeps = <<>>
    /\ messages = <<>> /\ rendered = {}

\* the keyword loop is about to call search_videos, with a cap of 20 or 60
InitSearch ==
    /\ \E limit \in {20, 60} : AfterCategories(limit)
    /\ pc = "queries_loop"
    /\ qi = 1
    /\ all_video_ids = <<>> /\ videos_df = <<>>
    /\ video_ids = <<>> /\ page_token = "None"
    /\ batches = <<>> /\ rows = <<>>
    /\ requests = <<>>

NextSearch ==
    \/ NextQuery
    \/ SearchRequest
    \/ SearchPage
    \/ ExecuteOk("search")
    \/ ExecuteHttpError
    \/ ExecuteException

\* search_videos against a provider whose pages go up to the requested size
SpecSearch == InitSearch /\ [][NextSearch]_vars

\* the search requests that collected n identifiers in full pages, cap 200
SearchLog(n) ==
    [k \in 1..(IF n = 0 THEN 1 ELSE (n + PageSize - 1) \div PageSize) |->
        [NoRequest EXCEPT !.label = "search",
                          !.maxResults = Min(PageSize, 200 - (k - 1) * PageSize),
                          !.pageToken = IF k = 1 THEN "None" ELSE "T1",
                          !.call = 1]]

\* the keyword loop has ended with n distinct identifiers collected
InitChunk ==
    /\ AfterCategories(200)
    /\ pc = "queries_loop"
    /\ qi = 2
    /\ \E n \in 0..MaxLen :
        /\ all_video_ids = [i \in 1..n |-> i]
        /\ video_ids = [i \in 1..n |-> i]
        /\ requests = SearchLog(n)
    /\ videos_df = <<>>
    /\ page_token = "None"
    /\ batches = <<>> /\ rows = <<>>

NextChunk ==
    \/ NextQuery
    \/ VideosRequest
    \/ VideosBatch
    \/ AfterVideos
    \/ ChannelsRequest
    \/ ChannelsBatch
    \/ ExecuteOk("chunk")
    \/ ExecuteHttpError
    \/ ExecuteException

\* batch enrichment of long identifier lists, every video of another publisher
SpecChunk == InitChunk /\ [][NextChunk]_vars

\* get_videos_stats has returned one or two rows of any of the item shapes
InitPipe ==
    /\ AfterCategories(20)
    /\ pc = "after_videos"
    /\ qi = 2
    /\ \E n \in 1..2 : \E f \in [1..n -> 1..Len(PipeProfiles)] :
        /\ all_video_ids = [i \in 1..n |-> i]
        /\ video_ids = [i \in 1..n |-> i]
        /\ rows = [i \in 1..n |-> VideoRow(VideoItemOf(i, PipeProfiles[f[i]]))]
        /\ videos_df = [i \in 1..n |-> VideoRow(VideoItemOf(i, PipeProfiles[f[i]]))]
        /\ requests = SearchLog(n) \o
                      <<[NoRequest EXCEPT !.label = "videos",
                                          !.ids = [i \in 1..n |-> i],
                                          !.maxResults = BatchSize]>>
    /\ page_token = "None"
    /\ batches = <<>>

NextPipe ==
    \/ AfterVideos
    \/ ChannelsRequest
    \/ ChannelsBatch
    \/ Merge
    \/ Trending
    \/ General
    \/ ExecuteOk("pipe")
    \/ ExecuteHttpError
    \/ ExecuteException

\* publisher enrichment, merge and the two views over many record shapes
SpecPipe == InitPipe /\ [][NextPipe]_vars

--------------------------------------------------------------------------
(* Properties *)

Last(s) == s[Len(s)]

CeilDiv(n, d) == (n + d - 1) \div d

NoDuplicates(s) == \A i, j \in 1..Len(s) : i # j => s[i] # s[j]

RequestsOf(label) == SelectSeq(requests, LAMBDA r : r.label = label)

IdsOf(reqs) == Concat([i \in 1..Len(reqs) |-> reqs[i].ids])

IsPrefix(s, t) == Len(s) <= Len(t) /\ s = SubSeq(t, 1, Len(s))

\* the reasons the specification lists as terminal, and the message of each
ClaimedTerminalReasons ==
    {"quotaExceeded", "dailyLimitExceeded", "keyInvalid", "forbidden",
     "ipRefererBlocked", "badRequest"}

ClaimedCategory(reason) ==
    IF reason \in {"quotaExceeded", "dailyLimitExceeded"} THEN "quota"
    ELSE IF reason = "badRequest" THEN "badRequest"
    ELSE "key"

\* C1: when request.execute() fails, at any attempt, with a reason classified as
\* terminal (quotaExceeded, dailyLimitExceeded, keyInvalid, forbidden,
\* ipRefererBlocked, badRequest), that very step stops the run with the message
\* of the reason's category: no sleep is added, no response is returned and no
\* table has been rendered; and from a stopped run nothing follows but a new
\* run, so no further execute() call and no table follow in that run.
C1_TerminalErrorAborts ==
    /\ [][(/\ executes' = executes + 1
           /\ last_err'.type = "HttpError"
           /\ ReasonOf(last_err') \in ClaimedTerminalReasons)
          => (/\ pc' = "stopped"
              /\ attempt' = 0
              /\ sleeps' = sleeps
              /\ ~res'.ok
              /\ Len(messages') = Len(messages) + 1
              /\ Last(messages').level = "error"
              /\ Last(messages').text = ClaimedCategory(ReasonOf(last_err'))
              /\ rendered' = {})]_vars
    /\ [][pc = "stopped" => (pc' = "idle" /\ executes' = 0 /\ rendered' = {})]_vars

\* a videos request fails with a terminal reason at its second attempt
C1_Witness ==
    /\ pc = "stopped"
    /\ request.label = "videos"
    /\ executes = 2
    /\ last_err.type = "HttpError"
    /\ ReasonOf(last_err) \in ClaimedTerminalReasons

\* C2: under non-terminal failures request.execute() is invoked at most
\* `retries` times; after failed attempt number k the call has slept
\* backoff^k; a success at attempt k <= retries returns that response; when
\* all `retries` attempts fail the last error is reported and the run stops;
\* a caller never goes on without a response.
C2_BoundedRetry ==
    /\ executes <= Retries
    /\ attempt >= 1 =>
        /\ attempt <= Retries
        /\ executes = attempt - 1
        /\ sleeps = [k \in 1..executes |-> <<Pow(3, k), Pow(2, k)>>]
    /\ res.ok => (attempt = 0 /\ executes \in 1..Retries)
    /\ (pc = "stopped" /\ messages # <<>> /\ Last(messages).text = "api_error") =>
        /\ executes = Retries
        /\ sleeps = [k \in 1..Retries |-> <<Pow(3, k), Pow(2, k)>>]
        /\ Last(messages).err = last_err
        /\ last_err # NoError
        /\ ~res.ok
    /\ (pc \in {"search_page", "videos_batch", "channels_batch"} /\ attempt = 0) => res.ok
    /\ (pc = "categories" /\ attempt = 0) => (res.ok \/ categories_cache.hit)

\* three attempts of a channels request fail, the last by a transport error
C2_Witness ==
    /\ pc = "stopped"
    /\ request.label = "canais"
    /\ executes = Retries
    /\ Len(sleeps) = Retries
    /\ last_err.type = "TimeoutError"
    /\ Last(messages).text = "api_error"

\* C3: search_videos never holds or returns more than `cap` identifiers, the
\* provider sending no more entries per page than asked for; and a page
\* without continuation token ends the call without any message, the
\* identifiers collected so far going to the caller.
C3_CapRespected ==
    /\ [](/\ Len(video_ids) <= max_per_query
          /\ Len(all_video_ids) <= max_per_query
          /\ \A i \in 1..Len(requests) :
                requests[i].label = "search" => requests[i].maxResults >= 1)
    /\ [][(pc = "search_page" /\ res.ok /\ ~res'.ok /\ NoToken(res.nextPageToken))
          => (/\ pc' = "queries_loop"
              /\ qi' = qi + 1
              /\ messages' = messages
              /\ requests' = requests
              /\ all_video_ids' = all_video_ids \o video_ids')]_vars

\* a cap of 60 is reached exactly, by more than one page
C3_Witness ==
    /\ pc = "queries_loop"
    /\ qi = 2
    /\ max_per_query = 60
    /\ Len(all_video_ids) = 60
    /\ Len(SearchRequestsOf(1)) >= 2

\* C4: no record of the trending view or of the general view has an unknown
\* subscriber count: neither the sentinel -1 (which every missing or
\* unparseable subscriberCount becomes) nor the NaN of a publisher the left
\* join did not match, whatever the thresholds.
C4_UnknownSubsExcluded ==
    /\ \A i \in 1..Len(trending) :
        ~trending[i].subs.na /\ trending[i].subs.v # UnknownSubs
    /\ \A i \in 1..Len(general) :
        ~general[i].subs.na /\ general[i].subs.v # UnknownSubs
    /\ \A i \in 1..Len(merged) :
        (merged[i].subs.na \/ merged[i].subs.v = UnknownSubs) =>
            /\ \A j \in 1..Len(trending) : trending[j].videoId # merged[i].videoId
            /\ \A j \in 1..Len(general) : general[j].videoId # merged[i].videoId

\* both tables are rendered while a record that passes every other general
\* threshold carries the sentinel, and another was not matched by the join
C4_Witness ==
    /\ pc = "done"
    /\ rendered = {"trending", "general"}
    /\ \E i \in 1..Len(merged) :
        /\ merged[i].subs = Num(UnknownSubs)
        /\ merged[i].views >= sidebar.min_views_general
        /\ merged[i].duration_sec >= 60 * sidebar.min_duration_general
    /\ Len(merged) = 2

\* C5: the identifier list handed to get_videos_stats holds no identifier
\* twice, so no videos request asks for an item twice.
C5_EnrichmentListDeduplicated ==
    /\ pc = "videos_loop" => NoDuplicates(all_video_ids)
    /\ NoDuplicates(IdsOf(RequestsOf("videos")))

\* C6: a run whose precondition fails (no credential, or no keyword left after
\* splitting and trimming) issues no request to the provider.
C6_NoRequestOnPreconditionFailure ==
    (pc # "idle" /\ (api_key = "" \/ ParseQueries(raw_queries) = <<>>))
        => requests = <<>>

\* C7: chunked(lst, 50) cuts the list into ceil(N/50) contiguous non-empty
\* chunks of at most 50 whose concatenation is the list; get_videos_stats and
\* get_channels_stats build one request per chunk, in order, none asking for
\* more than 50 identifiers.
C7_Chunking ==
    /\ \A lst \in {all_video_ids, unique_channels} :
        LET cs == chunked(lst, 50)
        IN  /\ Len(cs) = CeilDiv(Len(lst), 50)
            /\ \A k \in 1..Len(cs) : Len(cs[k]) \in 1..50
            /\ Concat(cs) = lst
    /\ \A i \in 1..Len(requests) :
        requests[i].label \in {"videos", "canais"} => Len(requests[i].ids) \in 1..50
    /\ IsPrefix(IdsOf(RequestsOf("videos")), all_video_ids)
    /\ IsPrefix(IdsOf(RequestsOf("canais")), unique_channels)
    /\ pc \in {"after_videos", "channels_loop", "channels_batch", "merge"} =>
        /\ IdsOf(RequestsOf("videos")) = all_video_ids
        /\ Len(RequestsOf("videos")) = CeilDiv(Len(all_video_ids), 50)
    /\ pc = "merge" =>
        /\ IdsOf(RequestsOf("canais")) = unique_channels
        /\ Len(RequestsOf("canais")) = CeilDiv(Len(unique_channels), 50)

\* more than a hundred identifiers went through both enrichments, in three
\* requests each
C7_Witness ==
    /\ pc = "merge"
    /\ Len(all_video_ids) > 100
    /\ Len(RequestsOf("videos")) = 3
    /\ Len(RequestsOf("canais")) = 3
    /\ Len(ch_df) = Len(all_video_ids)

\* C8: a run without resolvable publisher data (no item with a channelId, or
\* no record returned for the identifiers requested) ends with a message and
\* never in an unhandled exception at the merge.
C8_NoCrashWithoutPublishers ==
    (videos_df # <<>> /\ ch_df = <<>>) => pc # "crashed"

\* C9: every record of the trending view has a velocity that is not
\* negative, also when its publication timestamp is the run's `now` or later.
C9_VelocityNonNegative ==
    \A i \in 1..Len(trending) : trending[i].views_per_day >= 0

\* C10: within one search_videos call no two requests carry the same
\* pageToken.
C10_NoTokenSentTwice ==
    \A i, j \in 1..Len(requests) :
        (/\ i < j
         /\ requests[i].label = "search"
         /\ requests[j].label = "search"
         /\ requests[i].call = requests[j].call)
        => requests[i].pageToken # requests[j].pageToken

====
